---- MODULE Spec2Model ----
(***************************************************************************)
(* Camera relay of Printer-Controller/app/main.py:                         *)
(*   get_camera_frame   (MJPEG frame extraction, one upstream GET a call)  *)
(*   websocket_camera   (per-client push loop on the asyncio event loop)   *)
(*   get_camera_status  (status probe)                                     *)
(*   stream_camera      (raw pass-through)                                 *)
(* Bytes are integers 0..255; Python's None is a tagged record.            *)
(***************************************************************************)
EXTENDS Integers, Sequences, FiniteSets, TLC

VARIABLES
    pc,         \* pc[i]: position of websocket_camera coroutine i
    running,    \* coroutine holding the event-loop thread, 0 when the loop is free
    client,     \* client[i]: downstream peer of websocket i, "open" or "gone"
    outbox,     \* outbox[i]: argument of the send_bytes call coroutine i awaits
    handled,    \* handled[i]: exception the handler of coroutine i caught ("none" if none)
    escaped,    \* escaped[i]: an exception left websocket_camera through finally
    gpc,        \* position of the get_camera_frame call in flight
    delimiter,  \* local delimiter of get_camera_frame, encoded
    status,     \* status code of the upstream response, 0 when there is none
    stream,     \* body bytes the upstream connection delivers
    pos,        \* number of body bytes iter_content has yielded so far
    buffer,     \* local buffer of get_camera_frame
    result,     \* value get_camera_frame returns
    via,        \* how get_camera_frame returned: "frame", "end" or "except"
    emitted,    \* frames emitted from the current upstream connection
    spc,        \* position of the get_camera_status call
    sout,       \* what the upstream GET of get_camera_status produced
    sresp,      \* last answer of GET /camera/status
    probeConns, \* upstream connections opened by get_camera_status and not closed
    rpc,        \* position of the stream_camera call
    rout,       \* what the upstream GET of stream_camera produced
    rresp,      \* last answer of GET /camera/stream
    ppc,        \* position of the printer-control call: "idle", waiting on a POST, "done"
    preq,       \* the printer-control request being served (or last served)
    posts,      \* POSTs that request has sent to the printer API, in order
    answers,    \* what the printer API answered to each of them
    presp       \* answer given to the caller of the printer-control endpoint

wsvars == <<pc, running, client, outbox, handled, escaped>>
gvars == <<gpc, delimiter, status, stream, pos, buffer, result, via, emitted>>
svars == <<spc, sout, sresp, probeConns>>
rvars == <<rpc, rout, rresp>>
pvars == <<ppc, preq, posts, answers, presp>>
vars == <<wsvars, gvars, svars, rvars, pvars>>

(***************************************************************************)
(* Bounds of the model.                                                    *)
(***************************************************************************)
MaxTokens == 6      \* longest upstream body, in tokens
NumConsumers == 3   \* websocket clients attached

(***************************************************************************)
(* Python values and bytes operations.                                     *)
(***************************************************************************)
PyNone == [isNone |-> TRUE, bytes |-> <<>>]
PyBytes(b) == [isNone |-> FALSE, bytes |-> b]

Min(a, b) == IF a <= b THEN a ELSE b

\* bytes.find(pat): lowest 0-based index of pat in buf, -1 when absent
Find(buf, pat) ==
    LET hits == {k \in 0..(Len(buf) - Len(pat)) :
                    \A j \in 1..Len(pat) : buf[k + j] = pat[j]}
    IN  IF hits = {} THEN -1 ELSE CHOOSE k \in hits : \A m \in hits : k <= m

\* pat in buf
Contains(buf, pat) == Find(buf, pat) # -1

\* buf[a:b] for a, b >= 0
Slice(buf, a, b) == SubSeq(buf, a + 1, Min(b, Len(buf)))

\* buf[a:] for a >= 0
SliceFrom(buf, a) == SubSeq(buf, a + 1, Len(buf))

SOI == <<255, 216>>     \* b'\xff\xd8'
EOI == <<255, 217>>     \* b'\xff\xd9'
ChunkSize == 1024

\* f"--{boundary}".encode()
Delimiter(boundary) == <<45, 45>> \o boundary

(***************************************************************************)
(* Upstream camera: what a GET of OCTOPRINT_WEBCAM_URL can produce.        *)
(***************************************************************************)
Boundary == <<102>>                     \* boundary= parameter of the camera
Tokens == {"B", "S", "E", "D"}
TokenBytes(t) ==
    CASE t = "B" -> Delimiter(Boundary)
      [] t = "S" -> SOI
      [] t = "E" -> EOI
      [] t = "D" -> <<0>>

RECURSIVE Flatten(_)
Flatten(ts) == IF ts = <<>> THEN <<>> ELSE TokenBytes(Head(ts)) \o Flatten(Tail(ts))

\* every body of at most MaxTokens tokens
AllStreams == {Flatten(ts) : ts \in UNION {[1..n -> Tokens] : n \in 0..MaxTokens}}

\* bodies offered when several clients are attached: one complete part, and a
\* body that ends before any frame
WsStreams == {Flatten(<<"B", "S", "E">>), <<>>}

BadStatuses == {404, 503}

(***************************************************************************)
(* get_camera_frame                                                        *)
(***************************************************************************)
\* One pass of the loop body after buffer += chunk (lines 82-91):
\* found = the pass returns; frame, rest = the slice and the buffer left.
ExtractPass(buf, delim) ==
    LET frame_start == Find(buf, SOI)
        frame_end == Find(buf, EOI)
    IN  IF Contains(buf, delim) /\ frame_start # -1 /\ frame_end # -1
        THEN [found |-> TRUE,
              frame |-> Slice(buf, frame_start, frame_end + 2),
              rest  |-> SliceFrom(buf, frame_end + 2)]
        ELSE [found |-> FALSE, frame |-> <<>>, rest |-> buf]

\* except Exception as e: ... return None (lines 92-94)
ReturnNone(how) ==
    /\ gpc' = "return"
    /\ result' = PyNone
    /\ via' = how

\* requests.get raises (connection refused, reset, timeout)
GetRaises ==
    /\ gpc = "get"
    /\ status' = 0
    /\ ReturnNone("except")
    /\ UNCHANGED <<delimiter, stream, pos, buffer, emitted, wsvars, svars, rvars, pvars>>

\* the camera answers with a status other than 200 (lines 69-70)
GetBadStatus ==
    /\ gpc = "get"
    /\ \E st \in BadStatuses : st # 200 /\ status' = st
    /\ ReturnNone("except")
    /\ UNCHANGED <<delimiter, stream, pos, buffer, emitted, wsvars, svars, rvars, pvars>>

\* the camera answers 200 without a Content-Type header: KeyError (line 73)
GetNoContentType ==
    /\ gpc = "get"
    /\ status' = 200
    /\ ReturnNone("except")
    /\ UNCHANGED <<delimiter, stream, pos, buffer, emitted, wsvars, svars, rvars, pvars>>

\* the camera answers 200 with a boundary; the body is one of `bodies`
GetOk(bodies) ==
    /\ gpc = "get"
    /\ status' = 200
    /\ \E s \in bodies : stream' = s
    /\ delimiter' = Delimiter(Boundary)
    /\ buffer' = <<>>
    /\ pos' = 0
    /\ gpc' = "iter"
    /\ UNCHANGED <<result, via, emitted, wsvars, svars, rvars, pvars>>

\* iter_content yields the next chunk; the loop body runs once on it
ReadChunk ==
    /\ gpc = "iter"
    /\ pos < Len(stream)
    /\ \E k \in 1..Min(ChunkSize, Len(stream) - pos) :
          LET chunk == SubSeq(stream, pos + 1, pos + k)
              pass == ExtractPass(buffer \o chunk, delimiter)
          IN  /\ pos' = pos + k
              /\ buffer' = pass.rest
              /\ IF pass.found
                 THEN /\ gpc' = "return"
                      /\ result' = PyBytes(pass.frame)
                      /\ via' = "frame"
                      /\ emitted' = Append(emitted, pass.frame)
                 ELSE UNCHANGED <<gpc, result, via, emitted>>
    /\ UNCHANGED <<delimiter, status, stream, wsvars, svars, rvars, pvars>>

\* the body ends: the for loop falls through and the function returns None
StreamEnd ==
    /\ gpc = "iter"
    /\ pos = Len(stream)
    /\ ReturnNone("end")
    /\ UNCHANGED <<delimiter, status, stream, pos, buffer, emitted, wsvars, svars, rvars, pvars>>

\* the connection breaks while iterating: iter_content raises
ReadError ==
    /\ gpc = "iter"
    /\ ReturnNone("except")
    /\ UNCHANGED <<delimiter, status, stream, pos, buffer, emitted, wsvars, svars, rvars, pvars>>

(***************************************************************************)
(* websocket_camera: one coroutine per client, all on one event loop.      *)
(* A coroutine runs only while it holds the loop thread; it gives the      *)
(* thread up at an await and nowhere else.  get_camera_frame is a plain    *)
(* blocking call, so the caller keeps the thread for the whole call.       *)
(***************************************************************************)
Consumers == 1..NumConsumers

\* exceptions send_bytes can raise, and the ones `except Exception` catches
SendErrors == {"WebSocketDisconnect", "TypeError"}
ExceptionSubclasses == {"WebSocketDisconnect", "RuntimeError", "TypeError", "KeyError"}
Catches(e) == e \in ExceptionSubclasses

\* a handler that swallows the error and goes round the loop again
AfterSendErrorRetry(e) == "loop"

\* where the handler goes when send_bytes raises e inside the try (lines 381-384)
AfterSendError(e) == "closing"

\* await websocket.accept() (line 373)
Accept(i) ==
    /\ pc[i] = "idle"
    /\ running = 0
    /\ pc' = [pc EXCEPT ![i] = "loop"]
    /\ UNCHANGED <<running, client, outbox, handled, escaped, gvars, svars, rvars, pvars>>

\* frame = get_camera_frame(): the call starts, requests.get is issued (lines 378, 66)
CallGetCameraFrame(i) ==
    /\ pc[i] = "loop"
    /\ running = 0
    /\ pc' = [pc EXCEPT ![i] = "fetch"]
    /\ running' = i
    /\ gpc' = "get"
    /\ UNCHANGED <<client, outbox, handled, escaped, svars, rvars, pvars>>
    /\ UNCHANGED <<delimiter, status, stream, pos, buffer, result, via, emitted>>

\* get_camera_frame returns; send_bytes(frame) is called and awaited (line 379).
\* The locals of the call, the response and its connection among them, are gone.
FrameReturned(i) ==
    /\ pc[i] = "fetch"
    /\ running = i
    /\ gpc = "return"
    /\ outbox' = [outbox EXCEPT ![i] = <<result>>]
    /\ pc' = [pc EXCEPT ![i] = "sending"]
    /\ running' = 0
    /\ gpc' = "idle"
    /\ delimiter' = <<>>
    /\ status' = 0
    /\ stream' = <<>>
    /\ pos' = 0
    /\ buffer' = <<>>
    /\ result' = PyNone
    /\ via' = "none"
    /\ emitted' = <<>>
    /\ UNCHANGED <<client, handled, escaped, svars, rvars, pvars>>

\* the transport takes the message; await asyncio.sleep(0.05) follows (line 380).
\* send_bytes has no check of its argument: whether None is taken or refused
\* is the transport's choice.
SendOk(i) ==
    /\ pc[i] = "sending"
    /\ running = 0
    /\ client[i] = "open"
    /\ outbox' = [outbox EXCEPT ![i] = <<>>]
    /\ pc' = [pc EXCEPT ![i] = "sleeping"]
    /\ UNCHANGED <<running, client, handled, escaped, gvars, svars, rvars, pvars>>

\* send_bytes raises: the client is gone, or the transport refuses None
SendFail(i) ==
    /\ pc[i] = "sending"
    /\ running = 0
    /\ \E e \in SendErrors :
          /\ \/ client[i] = "gone" /\ e = "WebSocketDisconnect"
             \/ outbox[i][1].isNone /\ e = "TypeError"
          /\ handled' = [handled EXCEPT ![i] = IF Catches(e) THEN e ELSE "none"]
          /\ escaped' = [escaped EXCEPT ![i] = ~Catches(e)]
          /\ pc' = [pc EXCEPT ![i] = AfterSendError(e)]
    /\ outbox' = [outbox EXCEPT ![i] = <<>>]
    /\ UNCHANGED <<running, client, gvars, svars, rvars, pvars>>

\* the sleep ends; back to the top of while True (lines 375, 380)
Wake(i) ==
    /\ pc[i] = "sleeping"
    /\ running = 0
    /\ pc' = [pc EXCEPT ![i] = "loop"]
    /\ UNCHANGED <<running, client, outbox, handled, escaped, gvars, svars, rvars, pvars>>

\* finally: await websocket.close() (lines 383-384); the close is taken to
\* complete, whatever the state of the peer
Close(i) ==
    /\ pc[i] = "closing"
    /\ running = 0
    /\ pc' = [pc EXCEPT ![i] = "closed"]
    /\ UNCHANGED <<running, client, outbox, handled, escaped, gvars, svars, rvars, pvars>>

\* the downstream client goes away
ClientDisconnect(i) ==
    /\ pc[i] \notin {"idle", "closing", "closed"}
    /\ client[i] = "open"
    /\ client' = [client EXCEPT ![i] = "gone"]
    /\ UNCHANGED <<pc, running, outbox, handled, escaped, gvars, svars, rvars, pvars>>

\* a step of coroutine i itself
ConsumerStep(i) ==
    \/ Accept(i)
    \/ CallGetCameraFrame(i)
    \/ FrameReturned(i)
    \/ SendOk(i)
    \/ SendFail(i)
    \/ Wake(i)
    \/ Close(i)


(***************************************************************************)
(* Outcomes of requests.get on the camera URL, for the two HTTP endpoints. *)
(***************************************************************************)
MaxProbes == 3      \* status probes that got an upstream response

NoOutcome == [kind |-> "none", code |-> 0, cls |-> "", msg |-> ""]
Answered(code) == [kind |-> "response", code |-> code, cls |-> "", msg |-> ""]
Raised(cls, msg) == [kind |-> "exception", code |-> 0, cls |-> cls, msg |-> msg]

\* requests.exceptions: every class below derives from RequestException;
\* ConnectTimeout derives from both ConnectionError and Timeout
TimeoutClasses == {"Timeout", "ConnectTimeout", "ReadTimeout"}
ConnectionClasses == {"ConnectionError", "ConnectTimeout"}
RequestExceptionClasses == TimeoutClasses \cup ConnectionClasses \cup {"RequestException"}

Outcomes ==
    {Answered(c) : c \in {200} \cup BadStatuses}
    \cup {Raised(c, "timed out") : c \in TimeoutClasses}
    \cup {Raised("ConnectionError", "Connection refused"),
          Raised("ConnectionError", "Connection reset by peer"),
          Raised("RequestException", ""),
          Raised("RequestException", "invalid response")}

\* the upstream cannot be reached at all
Unreachable(o) == o.kind = "exception" /\ o.cls \in TimeoutClasses \cup ConnectionClasses

NoResp == [http |-> 0, camera_status |-> "", status_code |-> 0,
           has_error |-> FALSE, error |-> "", media_type |-> ""]

\* a dict returned by an endpoint: FastAPI answers 200 with it
Json200(camera_status, status_code, has_error, error) ==
    [http |-> 200, camera_status |-> camera_status, status_code |-> status_code,
     has_error |-> has_error, error |-> error, media_type |-> "application/json"]

\* raise HTTPException(status_code=code, ...)
HttpError(code) ==
    [http |-> code, camera_status |-> "", status_code |-> 0,
     has_error |-> FALSE, error |-> "", media_type |-> "application/json"]

(***************************************************************************)
(* get_camera_status                                                       *)
(***************************************************************************)
\* a probe that turns request errors into HTTP 500, as the printer endpoints do
CameraStatusReplyRaises(o) ==
    IF o.kind = "response"
    THEN IF o.code = 200
         THEN Json200("online", 0, FALSE, "")
         ELSE Json200("offline", o.code, FALSE, "")
    ELSE HttpError(500)

\* the body of get_camera_status on the outcome o of its GET (lines 336-353)
CameraStatusReply(o) ==
    IF o.kind = "response"
    THEN IF o.code = 200
         THEN Json200("online", 0, FALSE, "")
         ELSE Json200("offline", o.code, FALSE, "")
    ELSE IF o.cls \in TimeoutClasses
         THEN Json200("offline", 0, TRUE, "Connection timed out")
         ELSE IF o.cls \in RequestExceptionClasses
              THEN Json200("offline", 0, TRUE, o.msg)
              ELSE HttpError(500)

\* requests.get(..., stream=True, timeout=5) is issued (line 338)
StatusCall ==
    /\ spc = "idle"
    /\ probeConns < MaxProbes
    /\ spc' = "get"
    /\ UNCHANGED <<sout, sresp, probeConns, rvars, wsvars, gvars, pvars>>

\* the GET ends; a response comes with its connection open, the body unread
StatusOutcome ==
    /\ spc = "get"
    /\ \E o \in Outcomes :
          /\ sout' = o
          /\ probeConns' = IF o.kind = "response" THEN probeConns + 1 ELSE probeConns
    /\ spc' = "got"
    /\ UNCHANGED <<sresp, rvars, wsvars, gvars, pvars>>

\* the function returns its dict; nothing closes the response
StatusReturn ==
    /\ spc = "got"
    /\ sresp' = CameraStatusReply(sout)
    /\ spc' = "idle"
    /\ UNCHANGED <<sout, probeConns, rvars, wsvars, gvars, pvars>>

(***************************************************************************)
(* stream_camera                                                           *)
(***************************************************************************)
\* the body of stream_camera on the outcome o of its GET (lines 358-368);
\* the HTTPException raised in the try is no RequestException and passes
\* the except clause
StreamReply(o) ==
    IF o.kind = "response"
    THEN IF o.code # 200
         THEN HttpError(503)
         ELSE [http |-> 200, camera_status |-> "", status_code |-> 0,
               has_error |-> FALSE, error |-> "",
               media_type |-> "multipart/x-mixed-replace; boundary=frame"]
    ELSE IF o.cls \in RequestExceptionClasses
         THEN HttpError(500)     \* except RequestException: HTTPException(500)
         ELSE HttpError(500)     \* anything else leaves the handler: the server's 500

\* requests.get(OCTOPRINT_WEBCAM_URL, stream=True) is issued (line 360)
StreamCall ==
    /\ rpc = "idle"
    /\ rpc' = "get"
    /\ UNCHANGED <<rout, rresp, svars, wsvars, gvars, pvars>>

StreamOutcome ==
    /\ rpc = "get"
    /\ \E o \in Outcomes : rout' = o
    /\ rpc' = "got"
    /\ UNCHANGED <<rresp, svars, wsvars, gvars, pvars>>

StreamReturn ==
    /\ rpc = "got"
    /\ rresp' = StreamReply(rout)
    /\ rpc' = "idle"
    /\ UNCHANGED <<rout, svars, wsvars, gvars, pvars>>


(***************************************************************************)
(* Printer control (python/app/main.py and, line for line the same,        *)
(* Printer-Controller/app/main.py).  An optional field is <<>> when it is  *)
(* None and <<v>> when given; a float is held in tenths (105 is 10.5);     *)
(* text that is built or measured is a sequence of characters.             *)
(***************************************************************************)
None == <<>>
Some(v) == <<v>>
IsNone(o) == o = <<>>

\* float values a request can carry, in tenths: -0.5, 0.0, 10.0
FloatValues == {-5, 0, 100}
OptFloat == {None} \cup {Some(v) : v \in FloatValues}

DigitChars == <<"0", "1", "2", "3", "4", "5", "6", "7", "8", "9">>

\* str(n) for an integer n >= 0
RECURSIVE NatStr(_)
NatStr(n) == IF n < 10 THEN <<DigitChars[n + 1]>>
             ELSE NatStr(n \div 10) \o <<DigitChars[(n % 10) + 1]>>

\* f"{v}" for the float of t tenths: sign, integer part, ".", one decimal
FloatStr(t) ==
    LET a == IF t < 0 THEN 0 - t ELSE t
    IN  (IF t < 0 THEN <<"-">> ELSE <<>>)
        \o NatStr(a \div 10) \o <<".">> \o <<DigitChars[(a % 10) + 1]>>

NoRequest == [op |-> "none", command |-> "", file_name |-> "",
              hotend_temp |-> None, bed_temp |-> None,
              x |-> None, y |-> None, z |-> None, e |-> None, speed |-> None]

\* POST /printer/move with body MovementControl(x, y, z, e, speed)
MoveRequest(x, y, z, e, speed) ==
    [NoRequest EXCEPT !.op = "move", !.x = x, !.y = y, !.z = z, !.e = e, !.speed = speed]

\* POST /printer/command?command=..&file_name=..  (file_name "" stands for
\* both None and the empty string: `not file_name` holds of either)
CommandRequest(command, file_name) ==
    [NoRequest EXCEPT !.op = "command", !.command = command, !.file_name = file_name]

\* POST /printer/temperature with body TemperatureControl(hotend_temp, bed_temp)
TemperatureRequest(hotend_temp, bed_temp) ==
    [NoRequest EXCEPT !.op = "temperature", !.hotend_temp = hotend_temp, !.bed_temp = bed_temp]

\* one requests.post to the printer API: path, and what its JSON body carries
Post(path, command, target, gcode) ==
    [path |-> path, command |-> command, target |-> target, gcode |-> gcode]

\* what the printer API can do with a POST
ApiStatuses == {204, 200, 409, 500}
ApiAnswers == {Answered(c) : c \in ApiStatuses}
              \cup {Raised("ConnectionError", "Connection refused")}

NoReply == [http |-> 0, detail |-> "", message |-> <<>>]
\* return {"message": ...}
Success(message) == [http |-> 200, detail |-> "", message |-> message]
\* raise HTTPException(status_code=code, detail=detail)
Failure(code, detail) == [http |-> code, detail |-> detail, message |-> <<>>]

(***************************************************************************)
(* move_printer                                                            *)
(***************************************************************************)
\* f" {letter}{value}" when the field is not None, nothing otherwise
AxisToken(letter, field) ==
    IF IsNone(field) THEN <<>> ELSE <<" ", letter>> \o FloatStr(field[1])

\* a builder that tests truthiness (`if movement.x:`), dropping 0.0
MoveCommandTruthy(m) ==
    LET tok(letter, field) ==
            IF IsNone(field) \/ field = Some(0) THEN <<>> ELSE AxisToken(letter, field)
    IN  <<"G", "0">> \o tok("X", m.x) \o tok("Y", m.y) \o tok("Z", m.z)
            \o tok("E", m.e) \o tok("F", m.speed)

\* gcode_command as built from the request (lines 236-250 / 175-189)
MoveCommand(m) ==
    <<"G", "0">> \o AxisToken("X", m.x) \o AxisToken("Y", m.y) \o AxisToken("Z", m.z)
        \o AxisToken("E", m.e) \o AxisToken("F", m.speed)

SentCommandPrefix ==
    <<"S", "e", "n", "t", " ", "c", "o", "m", "m", "a", "n", "d", ":", " ">>

\* what move_printer answers once the printer API has answered a
MoveReply(a, gcode) ==
    IF a.kind = "exception"
    THEN Failure(500, a.msg)
    ELSE IF a.code # 204
         THEN Failure(a.code, "Failed to move printer")
         ELSE Success(SentCommandPrefix \o gcode)

\* the request arrives: the command is built, refused if it is bare "G0",
\* posted to /printer/command otherwise
MoveCall ==
    /\ ppc = "idle"
    /\ \E x \in OptFloat, y \in OptFloat, z \in OptFloat, e \in OptFloat, speed \in OptFloat :
          LET m == MoveRequest(x, y, z, e, speed)
              gcode == MoveCommand(m)
          IN  /\ preq' = m
              /\ answers' = <<>>
              /\ IF Len(gcode) = 2
                 THEN /\ presp' = Failure(400, "No movement axis specified")
                      /\ posts' = <<>>
                      /\ ppc' = "done"
                 ELSE /\ presp' = NoReply
                      /\ posts' = <<Post("/printer/command", "", None, gcode)>>
                      /\ ppc' = "move"
    /\ UNCHANGED <<wsvars, gvars, svars, rvars>>

\* the printer API answers (or the POST raises) and move_printer returns
MoveAnswered ==
    /\ ppc = "move"
    /\ \E a \in ApiAnswers :
          /\ answers' = Append(answers, a)
          /\ presp' = MoveReply(a, posts[1].gcode)
    /\ ppc' = "done"
    /\ UNCHANGED <<preq, posts, wsvars, gvars, svars, rvars>>

(***************************************************************************)
(* send_printer_command                                                    *)
(***************************************************************************)
ValidCommands == {"start", "pause", "resume", "cancel"}
CommandInputs == ValidCommands \cup {"home"}
FileNames == {"", "part.gcode"}

\* f"Command '{command}' sent successfully"
CommandSent(command) == <<"Command '", command, "' sent successfully">>

\* what send_printer_command answers after the /job POST of pause, resume or
\* cancel was answered a: the response is assigned and never looked at
\* (lines 107-109, 129-132)
JobReply(a, command) ==
    IF a.kind = "exception"
    THEN Failure(500, a.msg)
    ELSE Success(CommandSent(command))

\* what it answers after the select-and-print POST of start (lines 123-132)
SelectReply(a, command) ==
    IF a.kind = "exception"
    THEN Failure(500, a.msg)
    ELSE IF a.code # 204
         THEN Failure(a.code, "Failed to select and start the file for printing")
         ELSE Success(CommandSent(command))

\* the request arrives: validation, then the POST for the command
CommandCall ==
    /\ ppc = "idle"
    /\ \E command \in CommandInputs, file_name \in FileNames :
          /\ preq' = CommandRequest(command, file_name)
          /\ answers' = <<>>
          /\ IF command \notin ValidCommands
             THEN /\ presp' = Failure(400, "Invalid command")
                  /\ posts' = <<>>
                  /\ ppc' = "done"
             ELSE IF command \in {"pause", "resume", "cancel"}
             THEN /\ presp' = NoReply
                  /\ posts' = <<Post("/job", command, None, <<>>)>>
                  /\ ppc' = "job"
             ELSE IF file_name = ""
             THEN /\ presp' = Failure(400, "No file selected for printing")
                  /\ posts' = <<>>
                  /\ ppc' = "done"
             ELSE /\ presp' = NoReply
                  /\ posts' = <<Post("/files/local/" \o file_name, "select", None, <<>>)>>
                  /\ ppc' = "select"
    /\ UNCHANGED <<wsvars, gvars, svars, rvars>>

\* the /job POST is answered and the handler returns
JobAnswered ==
    /\ ppc = "job"
    /\ \E a \in ApiAnswers :
          /\ answers' = Append(answers, a)
          /\ presp' = JobReply(a, preq.command)
    /\ ppc' = "done"
    /\ UNCHANGED <<preq, posts, wsvars, gvars, svars, rvars>>

\* the select-and-print POST is answered and the handler returns
SelectAnswered ==
    /\ ppc = "select"
    /\ \E a \in ApiAnswers :
          /\ answers' = Append(answers, a)
          /\ presp' = SelectReply(a, preq.command)
    /\ ppc' = "done"
    /\ UNCHANGED <<preq, posts, wsvars, gvars, svars, rvars>>

(***************************************************************************)
(* set_temperature                                                         *)
(***************************************************************************)
TemperatureSent == <<"Temperature command(s) sent successfully">>

\* the POST of the bed target (lines 154-159)
BedPost(t) == Post("/printer/bed", "target", t, <<>>)

\* the request arrives; the hotend target is posted first when given, else
\* the bed target, else there is nothing to send
TemperatureCall ==
    /\ ppc = "idle"
    /\ \E hotend_temp \in OptFloat, bed_temp \in OptFloat :
          /\ preq' = TemperatureRequest(hotend_temp, bed_temp)
          /\ answers' = <<>>
          /\ IF ~IsNone(hotend_temp)
             THEN /\ posts' = <<Post("/printer/tool", "target", hotend_temp, <<>>)>>
                  /\ presp' = NoReply
                  /\ ppc' = "tool"
             ELSE IF ~IsNone(bed_temp)
             THEN /\ posts' = <<BedPost(bed_temp)>>
                  /\ presp' = NoReply
                  /\ ppc' = "bed"
             ELSE /\ posts' = <<>>
                  /\ presp' = Success(TemperatureSent)
                  /\ ppc' = "done"
    /\ UNCHANGED <<wsvars, gvars, svars, rvars>>

\* the hotend POST is answered: error, or on to the bed target, or done
ToolAnswered ==
    /\ ppc = "tool"
    /\ \E a \in ApiAnswers :
          /\ answers' = Append(answers, a)
          /\ IF a.kind = "exception"
             THEN /\ presp' = Failure(500, a.msg)
                  /\ ppc' = "done"
                  /\ posts' = posts
             ELSE IF a.code # 204
             THEN /\ presp' = Failure(a.code, "Failed to set hotend temperature")
                  /\ ppc' = "done"
                  /\ posts' = posts
             ELSE IF ~IsNone(preq.bed_temp)
             THEN /\ presp' = NoReply
                  /\ ppc' = "bed"
                  /\ posts' = Append(posts, BedPost(preq.bed_temp))
             ELSE /\ presp' = Success(TemperatureSent)
                  /\ ppc' = "done"
                  /\ posts' = posts
    /\ UNCHANGED <<preq, wsvars, gvars, svars, rvars>>

\* the bed POST is answered and the handler returns
BedAnswered ==
    /\ ppc = "bed"
    /\ \E a \in ApiAnswers :
          /\ answers' = Append(answers, a)
          /\ presp' = IF a.kind = "exception"
                      THEN Failure(500, a.msg)
                      ELSE IF a.code # 204
                           THEN Failure(a.code, "Failed to set bed temperature")
                           ELSE Success(TemperatureSent)
    /\ ppc' = "done"
    /\ UNCHANGED <<preq, posts, wsvars, gvars, svars, rvars>>


\* the answer goes out to the caller; nothing of the request is kept
Replied ==
    /\ ppc = "done"
    /\ ppc' = "idle"
    /\ preq' = NoRequest
    /\ posts' = <<>>
    /\ answers' = <<>>
    /\ presp' = NoReply
    /\ UNCHANGED <<wsvars, gvars, svars, rvars>>

Init ==
    /\ pc = [i \in Consumers |-> "idle"]
    /\ running = 0
    /\ client = [i \in Consumers |-> "open"]
    /\ outbox = [i \in Consumers |-> <<>>]
    /\ handled = [i \in Consumers |-> "none"]
    /\ escaped = [i \in Consumers |-> FALSE]
    /\ gpc = "idle"
    /\ delimiter = <<>>
    /\ status = 0
    /\ stream = <<>>
    /\ pos = 0
    /\ buffer = <<>>
    /\ result = PyNone
    /\ via = "none"
    /\ emitted = <<>>
    /\ spc = "idle"
    /\ sout = NoOutcome
    /\ sresp = NoResp
    /\ probeConns = 0
    /\ rpc = "idle"
    /\ rout = NoOutcome
    /\ rresp = NoResp
    /\ ppc = "idle"
    /\ preq = NoRequest
    /\ posts = <<>>
    /\ answers = <<>>
    /\ presp = NoReply

\* the frame extractor under every upstream body, driven by one client
NextExtract ==
    \/ GetRaises
    \/ GetBadStatus
    \/ GetNoContentType
    \/ GetOk(AllStreams)
    \/ ReadChunk
    \/ StreamEnd
    \/ ReadError
    \/ Accept(1)
    \/ CallGetCameraFrame(1)
    \/ FrameReturned(1)
    \/ SendOk(1)
    \/ SendFail(1)
    \/ Wake(1)
    \/ Close(1)
    \/ ClientDisconnect(1)

SpecExtract == Init /\ [][NextExtract]_vars

\* all the clients on one event loop
Next ==
    \/ GetRaises
    \/ GetBadStatus
    \/ GetNoContentType
    \/ GetOk(WsStreams)
    \/ ReadChunk
    \/ StreamEnd
    \/ ReadError
    \/ \E i \in Consumers : ConsumerStep(i)
    \/ \E i \in Consumers : ClientDisconnect(i)

Spec == Init /\ [][Next]_vars

\* the two camera endpoints over HTTP (plain def handlers, run on worker threads)
NextHttp ==
    \/ StatusCall
    \/ StatusOutcome
    \/ StatusReturn
    \/ StreamCall
    \/ StreamOutcome
    \/ StreamReturn

SpecHttp == Init /\ [][NextHttp]_vars

\* the printer-control endpoints, one request at a time
NextPrinter ==
    \/ MoveCall
    \/ MoveAnswered
    \/ CommandCall
    \/ JobAnswered
    \/ SelectAnswered
    \/ TemperatureCall
    \/ ToolAnswered
    \/ BedAnswered
    \/ Replied

SpecPrinter == Init /\ [][NextPrinter]_vars

(***************************************************************************)
(* Properties                                                              *)
(***************************************************************************)
\* the body bytes the call in flight has read so far
Consumed == SubSeq(stream, 1, pos)

\* b starts with FF D8 and ends with FF D9
IsJpegFrame(b) ==
    /\ Len(b) >= 2
    /\ SubSeq(b, 1, 2) = SOI
    /\ SubSeq(b, Len(b) - 1, Len(b)) = EOI

\* lowest 0-based index >= from at which pat occurs in buf, -1 when there is none
FindFrom(buf, pat, from) ==
    LET hits == {k \in from..(Len(buf) - Len(pat)) :
                    \A j \in 1..Len(pat) : buf[k + j] = pat[j]}
    IN  IF hits = {} THEN -1 ELSE CHOOSE k \in hits : \A m \in hits : k <= m

\* the first FF D8 of b and the first FF D9 after it
SpanStart(b) == Find(b, SOI)
SpanEnd(b) == IF SpanStart(b) = -1 THEN -1 ELSE FindFrom(b, EOI, SpanStart(b) + 2)
HasSpan(b) == SpanEnd(b) # -1
FirstSpan(b) == Slice(b, SpanStart(b), SpanEnd(b) + 2)

\* an FF D9 lies before the first FF D8 of b (or b has no FF D8 at all)
DanglingEnd(b) ==
    /\ Find(b, EOI) # -1
    /\ Find(b, SOI) = -1 \/ Find(b, EOI) < Find(b, SOI)

\* one multipart part carrying the JPEG f, and a body of the same part twice
Part(f) == Delimiter(Boundary) \o f
TwoParts(f) == Part(f) \o Part(f)
SmallJpegs == {SOI \o EOI, SOI \o <<0>> \o EOI}

\* C1: every value other than None that get_camera_frame returns, and so every
\* message websocket_camera hands to send_bytes, starts with FF D8 and ends
\* with FF D9; no empty or truncated frame is emitted.
C1_EmittedFramesAreJpegs ==
    /\ (gpc = "return" /\ ~result.isNone) => IsJpegFrame(result.bytes)
    /\ \A i \in Consumers :
          (outbox[i] # <<>> /\ ~outbox[i][1].isNone) => IsJpegFrame(outbox[i][1].bytes)

\* C2: once the bytes read hold a complete FF D8 ... FF D9 span, the call emits
\* exactly one frame, equal to the bytes from the first FF D8 through the first
\* FF D9 after it, and leaves in the buffer only the bytes after that span.
\* Stated here for the bytes that hold the boundary token, the half of the
\* claim's "boundary token seen or not" in which the code emits at all.
C2_EmitsFirstSpan ==
    /\ (gpc = "iter" /\ Contains(buffer, delimiter)) => ~HasSpan(buffer)
    /\ (gpc = "return" /\ Contains(Consumed, delimiter) /\ HasSpan(Consumed)) =>
          /\ result = PyBytes(FirstSpan(Consumed))
          /\ emitted = <<FirstSpan(Consumed)>>
          /\ buffer = SliceFrom(Consumed, SpanEnd(Consumed) + 2)

\* C3: when the bytes read hold the boundary token and an FF D9 before the
\* first FF D8, the call emits nothing for them: a return, if any, is the None
\* of the stream ending or breaking, never a value sliced from the buffer.
C3_DanglingEndEmitsNothing ==
    (gpc = "return" /\ Contains(Consumed, delimiter) /\ DanglingEnd(Consumed)) =>
        (via # "frame" /\ result.isNone /\ emitted = <<>>)

\* C4: when one upstream connection delivers the same JPEG twice as two
\* successive parts, the bytes after the first frame's end stay available to
\* the next extraction, so that the second part is emitted too.
C4_SecondPartKept ==
    [][(gpc = "return" /\ via = "frame" /\ \E f \in SmallJpegs : stream = TwoParts(f)) =>
          (buffer' \o SubSeq(stream', pos' + 1, Len(stream'))
              = buffer \o SubSeq(stream, pos + 1, Len(stream)))]_vars

\* coroutine i is held up (every client has been accepted by then): in its upstream read, its send or its sleep, or its
\* client is gone
Stalled(i) == pc[i] \in {"fetch", "sending", "sleeping"} \/ client[i] = "gone"

\* coroutine j is attached and has a next step to take
Attached(j) == pc[j] \in {"loop", "sending", "sleeping"}

\* C5: with three consumers attached, one of them being disconnected or held
\* up in its upstream read, its send or its sleep never keeps another from
\* taking its next step.
C5_OthersKeepRunning ==
    \A i \in Consumers : \A j \in Consumers \ {i} :
        ((\A k \in Consumers : pc[k] # "idle") /\ Stalled(i) /\ Attached(j))
            => ENABLED ConsumerStep(j)

\* a send of coroutine i has failed
SendFailed(i) == handled[i] # "none" \/ escaped[i]

C7_NoFrameEndsStream ==
    [][\A i \in Consumers :
          (pc[i] = "sending" /\ outbox[i][1].isNone) => pc'[i] \in {"sending", "closing"}]_vars

\* C8: GET /camera/stream answers 200 with the multipart content type when
\* the camera answers 200, and 503 whenever the camera is unavailable
\* (status other than 200, connection error, timeout); no other status.
C8_StreamIs200Or503 ==
    (rpc = "idle" /\ rresp # NoResp) =>
        /\ rresp.http \in {200, 503}
        /\ (rout.kind = "response" /\ rout.code = 200) =>
              (rresp.http = 200 /\ rresp.media_type = "multipart/x-mixed-replace; boundary=frame")
        /\ ~(rout.kind = "response" /\ rout.code = 200) => rresp.http = 503

\* C9: every status probe has released the upstream connection it opened by
\* the time it returns; between probes none is held open.
C9_ProbeReleasesConnection ==
    spc = "idle" => probeConns = 0

\* C10: GET /camera/status answers 200 for every upstream outcome, with
\* camera_status "online" exactly when the camera answered 200 and "offline"
\* otherwise, and with a non-empty error detail when the camera is unreachable.
C10_StatusNeverFails ==
    (spc = "idle" /\ sresp # NoResp) =>
        /\ sresp.http = 200
        /\ sresp.camera_status = "online" <=> (sout.kind = "response" /\ sout.code = 200)
        /\ sresp.camera_status \in {"online", "offline"}
        /\ Unreachable(sout) => (sresp.has_error /\ sresp.error # "")

\* a probe of a camera that refuses the connection has answered
C10_Witness ==
    /\ spc = "idle"
    /\ sout = Raised("ConnectionError", "Connection refused")
    /\ sresp.camera_status = "offline"
    /\ sresp.error = "Connection refused"

\* cmd cut at its spaces, as a sequence of words
RECURSIVE Words(_)
Words(cmd) ==
    LET sp == Find(cmd, <<" ">>)
    IN  IF sp = -1 THEN <<cmd>>
        ELSE <<SubSeq(cmd, 1, sp)>> \o Words(SubSeq(cmd, sp + 2, Len(cmd)))

\* the fields of a move request in the order X, Y, Z, E, F, and those given
MoveFields(m) == <<<<"X", m.x>>, <<"Y", m.y>>, <<"Z", m.z>>, <<"E", m.e>>, <<"F", m.speed>>>>
GivenFields(m) == LET given(f) == ~IsNone(f[2]) IN SelectSeq(MoveFields(m), given)

\* a move request that names none of x, y, z, e
NoAxis(m) == m.op = "move" /\ IsNone(m.x) /\ IsNone(m.y) /\ IsNone(m.z) /\ IsNone(m.e)

\* C12: move_printer called with none of x, y, z, e given, whatever the speed,
\* answers 400 "No movement axis specified" and sends no command to the
\* printer API.
C12_NoAxisIs400 ==
    NoAxis(preq) =>
        /\ posts = <<>>
        /\ ppc = "done"
        /\ presp = Failure(400, "No movement axis specified")

Rejected(a) == a.kind = "response" /\ (a.code < 200 \/ a.code > 299)

\* C11: for every printer-control operation (pause, resume, cancel, start,
\* set_temperature, move_printer), a rejection by the printer API reaches the
\* caller as an error with the same status; success is never reported for a
\* request the printer API rejected.
C11_RejectionIsPropagated ==
    (ppc = "done" /\ \E k \in 1..Len(answers) : Rejected(answers[k])) =>
        /\ presp.message = <<>>
        /\ presp.http # 200
        /\ presp.http = answers[Len(answers)].code

====
